---- MODULE Spec2Model ----
(***************************************************************************)
(* Model of func_synth.py: a typed, depth-bounded random synthesiser of    *)
(* expression trees (SynthInt / SynthBool / SynthStr / SynthList and their *)
(* productions), the evaluation of the trees, and make_func's wrapper.     *)
(*                                                                         *)
(* The Python call stack of the classmethods `synthesize` is the variable  *)
(* `stack`; every random.choice is a nondeterministic choice; a raised     *)
(* exception unwinds the whole stack (the source has no try/except).       *)
(***************************************************************************)
EXTENDS Integers, Sequences, FiniteSets, TLC

VARIABLES
    depth,          \* make_func argument `depth`
    input_args,     \* make_func argument `input_args`: sequence of SynthArg
    output_type,    \* make_func argument `output_type`: a class name
    int_literals,   \* pools, as passed unchanged down every call
    int_ops,
    bool_literals,
    bool_ops,
    str_literals,
    str_ops,
    stack,          \* active synthesize calls, outermost first
    expr,           \* make_func's local `expr` (NoNode until synthesis returns)
    error,          \* the exception that escaped synthesis ("" if none)
    phase,          \* "synth" | "made" | "failed" | "called" | "tree" | "evaluated"
    args,           \* positional arguments of the last inner_func call
    env,            \* environment built by the last call
    evaluated,      \* whether the last call reached expr.evaluate
    callResult      \* outcome of the last call / evaluation

config == <<depth, input_args, output_type, int_literals, int_ops,
            bool_literals, bool_ops, str_literals, str_ops>>
callvars == <<args, env, evaluated, callResult>>
vars == <<depth, input_args, output_type, int_literals, int_ops,
          bool_literals, bool_ops, str_literals, str_ops,
          stack, expr, error, phase, args, env, evaluated, callResult>>

---------------------------------------------------------------------------
(* Bounds of the model *)

MaxDepth == 3
EvalHeight == 2

---------------------------------------------------------------------------
(* Python values: a type tag with an integer payload (int, and bool as    *)
(* its subclass with 1 and 0) or a sequence payload (the character codes   *)
(* of a str, the elements of a list).                                      *)

IntV(n) == [ty |-> "int", n |-> n]
BoolV(b) == [ty |-> "bool", n |-> IF b THEN 1 ELSE 0]
StrV(s) == [ty |-> "str", s |-> s]
ListV(s) == [ty |-> "list", s |-> s]
NoneV == [ty |-> "none"]

(* Outcome of a Python call: a returned value or a raised exception *)
Return(v) == [ok |-> TRUE, val |-> v]
Raise(e) == [ok |-> FALSE, err |-> e]

---------------------------------------------------------------------------
(* Expression nodes: the instances built by the __init__ methods *)

NoNode == [cls |-> "None"]

SynthArg(name, argtype) == [cls |-> "SynthArg", name |-> name, argtype |-> argtype]

SynthIntConst(val) == [cls |-> "SynthIntConst", val |-> val]

SynthIntAdd(left, right) == [cls |-> "SynthIntAdd", left |-> left, right |-> right]

SynthListLen(inner) == [cls |-> "SynthListLen", inner |-> inner]

SynthBoolConst(val) == [cls |-> "SynthBoolConst", val |-> val]

SynthBoolAnd(left, right) == [cls |-> "SynthBoolAnd", left |-> left, right |-> right]

SynthStrConst(val) == [cls |-> "SynthStrConst", val |-> val]

SynthStrAdd(left, right) == [cls |-> "SynthStrAdd", left |-> left, right |-> right]

(* The class hierarchy: the semantic type a class declares *)
DeclaredType(cls) ==
    CASE cls \in {"SynthInt", "SynthIntConst", "SynthIntAdd", "SynthListLen"} -> "int"
      [] cls \in {"SynthBool", "SynthBoolConst", "SynthBoolAnd"} -> "bool"
      [] cls \in {"SynthStr", "SynthStrConst", "SynthStrAdd"} -> "str"
      [] cls = "SynthList" -> "list"
      [] OTHER -> "none"

(* The semantic type of a node: its class's, or a parameter's argtype *)
NodeType(node) ==
    IF node.cls = "SynthArg" THEN DeclaredType(node.argtype) ELSE DeclaredType(node.cls)

NonTerminals == {"SynthIntAdd", "SynthListLen", "SynthBoolAnd", "SynthStrAdd"}
Dispatchers == {"SynthInt", "SynthBool", "SynthStr", "SynthList"}

---------------------------------------------------------------------------
(* Evaluation *)

(* Python's binary + on the modelled values (bool is a subclass of int) *)
PyAdd(a, b) ==
    IF a.ty \in {"int", "bool"} /\ b.ty \in {"int", "bool"} THEN Return(IntV(a.n + b.n))
    ELSE IF a.ty = "str" /\ b.ty = "str" THEN Return(StrV(a.s \o b.s))
    ELSE IF a.ty = "list" /\ b.ty = "list" THEN Return(ListV(a.s \o b.s))
    ELSE Raise("TypeError")

(* Python's len() *)
PyLen(a) ==
    IF a.ty \in {"str", "list"} THEN Return(IntV(Len(a.s))) ELSE Raise("TypeError")

(* Python's truth value *)
Truthy(a) ==
    CASE a.ty \in {"int", "bool"} -> a.n # 0
      [] a.ty \in {"str", "list"} -> a.s # <<>>
      [] OTHER -> FALSE

(* SynthArg.evaluate, with the lookup never failing *)
SynthArg_evaluate_default(self, e) ==
    IF self.name \notin DOMAIN e THEN Return(NoneV) ELSE Return(e[self.name])

SynthArg_evaluate(self, e) ==
    IF self.name \notin DOMAIN e THEN Raise("KeyError") ELSE Return(e[self.name])

(* self.left.evaluate(env) + self.right.evaluate(env): both operands are   *)
(* evaluated, left first, and an exception of either escapes               *)
Add_evaluate(l, r) ==
    IF ~l.ok THEN l ELSE IF ~r.ok THEN r ELSE PyAdd(l.val, r.val)

(* self.left.evaluate(env) and self.right.evaluate(env): the right operand *)
(* is evaluated only when the left one is true                             *)
SynthBoolAnd_evaluate(l, r) ==
    IF ~l.ok THEN l ELSE IF ~Truthy(l.val) THEN l ELSE r

SynthListLen_evaluate(i) ==
    IF ~i.ok THEN i ELSE PyLen(i.val)

RECURSIVE evaluate(_, _)
evaluate(node, e) ==
    CASE node.cls = "SynthArg" -> SynthArg_evaluate(node, e)
      [] node.cls \in {"SynthIntConst", "SynthBoolConst", "SynthStrConst"} -> Return(node.val)
      [] node.cls \in {"SynthIntAdd", "SynthStrAdd"} ->
            Add_evaluate(evaluate(node.left, e), evaluate(node.right, e))
      [] node.cls = "SynthBoolAnd" ->
            SynthBoolAnd_evaluate(evaluate(node.left, e), evaluate(node.right, e))
      [] node.cls = "SynthListLen" -> SynthListLen_evaluate(evaluate(node.inner, e))
      [] OTHER -> Raise("NotImplementedError")

---------------------------------------------------------------------------
(* Synthesis: the call stack *)

Frame(cls, d) == [cls |-> cls, depth |-> d, kids |-> <<>>]
Top == stack[Len(stack)]
Running(cls) == phase = "synth" /\ stack # <<>> /\ Top.cls = cls

(* An exception escapes every active call: nothing is returned *)
Unwind(e) ==
    /\ phase' = "failed"
    /\ error' = e
    /\ stack' = <<>>
    /\ UNCHANGED expr

(* `return node` of the innermost call: to its caller, or to make_func *)
Deliver(node) ==
    /\ IF Len(stack) = 1
         THEN /\ stack' = <<>>
              /\ expr' = node
              /\ phase' = "made"
         ELSE /\ stack' = [SubSeq(stack, 1, Len(stack) - 1)
                              EXCEPT ![Len(stack) - 1].kids = Append(@, node)]
              /\ UNCHANGED <<expr, phase>>
    /\ UNCHANGED error

(* `return choice(class_choices).synthesize(depth, ...)`: same depth, and  *)
(* the result is handed on unchanged                                       *)
Dispatch(cls) ==
    /\ stack' = [stack EXCEPT ![Len(stack)].cls = cls]
    /\ UNCHANGED <<expr, error, phase>>

(* X.synthesize(d, ...) called from a production *)
Call(cls, d) ==
    /\ stack' = Append(stack, Frame(cls, d))
    /\ UNCHANGED <<expr, error, phase>>

(* the depth handed to a child, without the decrement *)
ChildDepth_same(d) == d

(* `depth - 1` of every recursive call *)
ChildDepth(d) == d - 1

ArgsOfType(t) == SelectSeq(input_args, LAMBDA a : a.argtype = t)

(* valid_int_ops with the non-terminals admitted one level too deep *)
ValidIntOps_late(d) ==
    {op \in int_ops : \/ op = "SynthIntConst" /\ int_literals # <<>>
                      \/ op # "SynthIntConst" /\ d > 0}

(* valid_int_ops *)
ValidIntOps(d) ==
    {op \in int_ops : \/ op = "SynthIntConst" /\ int_literals # <<>>
                      \/ op # "SynthIntConst" /\ d > 1}

(* valid_str_ops without the check of the literal pool *)
ValidStrOps_nopool(d) ==
    {op \in str_ops : \/ op = "SynthStrConst"
                      \/ op # "SynthStrConst" /\ d > 1}

(* valid_str_ops *)
ValidStrOps(d) ==
    {op \in str_ops : \/ op = "SynthStrConst" /\ str_literals # <<>>
                      \/ op # "SynthStrConst" /\ d > 1}

(* valid_bool_ops *)
ValidBoolOps(d) ==
    {op \in bool_ops : op = "SynthBoolConst" \/ d > 1}

SynthInt_synthesize ==
    /\ Running("SynthInt")
    /\ LET int_args == ArgsOfType("SynthInt")
           valid_int_ops == ValidIntOps(Top.depth)
       IN IF valid_int_ops = {} /\ int_args = <<>>
            THEN Unwind("IndexError")
            ELSE \/ \E op \in valid_int_ops : Dispatch(op)
                 \/ \E i \in 1..Len(int_args) : Deliver(int_args[i])
    /\ UNCHANGED <<config, callvars>>

SynthIntConst_synthesize ==
    /\ Running("SynthIntConst")
    /\ IF int_literals = <<>>
         THEN Unwind("ValueError")
         ELSE \E i \in 1..Len(int_literals) : Deliver(SynthIntConst(int_literals[i]))
    /\ UNCHANGED <<config, callvars>>

SynthIntAdd_synthesize ==
    /\ Running("SynthIntAdd")
    /\ IF Top.depth <= 1
         THEN Unwind("RuntimeError")
         ELSE IF Len(Top.kids) < 2
                THEN Call("SynthInt", ChildDepth(Top.depth))
                ELSE Deliver(SynthIntAdd(Top.kids[1], Top.kids[2]))
    /\ UNCHANGED <<config, callvars>>

(* the operand of SynthListLen synthesised by the parent's own dispatcher *)
ListLenOperand_parent == "SynthInt"

(* SynthList.synthesize(depth - 1, ...) *)
ListLenOperand == "SynthList"

SynthListLen_synthesize ==
    /\ Running("SynthListLen")
    /\ IF Top.depth <= 1
         THEN Unwind("RuntimeError")
         ELSE IF Len(Top.kids) < 1
                THEN Call(ListLenOperand, ChildDepth(Top.depth))
                ELSE Deliver(SynthListLen(Top.kids[1]))
    /\ UNCHANGED <<config, callvars>>

(* bool_args and valid_bool_ops are computed, then line 190 reads the     *)
(* undefined names valid_int_ops and int_args                             *)
SynthBool_synthesize ==
    /\ Running("SynthBool")
    /\ LET bool_args == ArgsOfType("SynthBool")
           valid_bool_ops == ValidBoolOps(Top.depth)
       IN Unwind("NameError")
    /\ UNCHANGED <<config, callvars>>

SynthBoolConst_synthesize ==
    /\ Running("SynthBoolConst")
    /\ IF bool_literals = <<>>
         THEN Unwind("ValueError")
         ELSE \E i \in 1..Len(bool_literals) : Deliver(SynthIntConst(bool_literals[i]))
    /\ UNCHANGED <<config, callvars>>

SynthBoolAnd_synthesize ==
    /\ Running("SynthBoolAnd")
    /\ IF Top.depth <= 1
         THEN Unwind("RuntimeError")
         ELSE IF Len(Top.kids) < 2
                THEN Call("SynthBool", ChildDepth(Top.depth))
                ELSE Deliver(SynthBoolAnd(Top.kids[1], Top.kids[2]))
    /\ UNCHANGED <<config, callvars>>

SynthStr_synthesize ==
    /\ Running("SynthStr")
    /\ LET str_args == ArgsOfType("SynthStr")
           valid_str_ops == ValidStrOps(Top.depth)
       IN IF valid_str_ops = {} /\ str_args = <<>>
            THEN Unwind("IndexError")
            ELSE \/ \E op \in valid_str_ops : Dispatch(op)
                 \/ \E i \in 1..Len(str_args) : Deliver(str_args[i])
    /\ UNCHANGED <<config, callvars>>

SynthStrConst_synthesize ==
    /\ Running("SynthStrConst")
    /\ IF str_literals = <<>>
         THEN Unwind("ValueError")
         ELSE \E i \in 1..Len(str_literals) : Deliver(SynthStrConst(str_literals[i]))
    /\ UNCHANGED <<config, callvars>>

SynthStrAdd_synthesize ==
    /\ Running("SynthStrAdd")
    /\ IF Top.depth <= 1
         THEN Unwind("RuntimeError")
         ELSE IF Len(Top.kids) < 2
                THEN Call("SynthStr", ChildDepth(Top.depth))
                ELSE Deliver(SynthStrAdd(Top.kids[1], Top.kids[2]))
    /\ UNCHANGED <<config, callvars>>

SynthList_synthesize ==
    /\ Running("SynthList")
    /\ LET list_args == ArgsOfType("SynthList")
       IN IF list_args = <<>>
            THEN Unwind("IndexError")
            ELSE \E i \in 1..Len(list_args) : Deliver(list_args[i])
    /\ UNCHANGED <<config, callvars>>

---------------------------------------------------------------------------
(* make_func and the function it returns *)

NoEnv == [nm \in {} |-> NoneV]
NoResult == [ok |-> FALSE, err |-> ""]

(* {abstract_arg.name: arg for abstract_arg, arg in zip(input_args, args)}: *)
(* zip stops at the shorter sequence; a later pair overwrites an earlier    *)
(* one of the same name                                                     *)
ZipEnv(params, a) ==
    LET n == IF Len(params) < Len(a) THEN Len(params) ELSE Len(a)
        last(nm) == CHOOSE i \in 1..n :
                       /\ params[i].name = nm
                       /\ \A j \in (i + 1)..n : params[j].name # nm
    IN [nm \in {params[i].name : i \in 1..n} |-> a[last(nm)]]

(* the arity test comparing the wrong way round: only too few arguments fail *)
ArityMismatch_fewer(params, a) == Len(a) < Len(params)

(* len(input_args) != len(args) *)
ArityMismatch(params, a) == Len(params) # Len(a)

(* Values a caller passes for a parameter of the given type (two variants) *)
ArgValue(argtype, k) ==
    CASE argtype = "SynthInt" -> IntV(k)
      [] argtype = "SynthBool" -> BoolV(k = 1)
      [] argtype = "SynthStr" -> StrV(<<96 + k>>)
      [] argtype = "SynthList" -> ListV(IF k = 1 THEN <<0, 1, 2>> ELSE <<0, 1, 2, 3, 4>>)
      [] OTHER -> NoneV

(* m positional arguments: of the declared types, then surplus integers *)
CallArgs(m, k) ==
    [i \in 1..m |-> IF i <= Len(input_args)
                      THEN ArgValue(input_args[i].argtype, k)
                      ELSE IntV(0)]

inner_func ==
    /\ phase \in {"made", "called"}
    /\ \E m \in 0..(Len(input_args) + 1), k \in 1..2 :
          LET a == CallArgs(m, IF m = Len(input_args) THEN k ELSE 1) IN
          /\ args' = a
          /\ IF ArityMismatch(input_args, a)
               THEN /\ callResult' = Raise("ValueError")
                    /\ env' = NoEnv
                    /\ evaluated' = FALSE
               ELSE LET e == ZipEnv(input_args, a) IN
                    /\ env' = e
                    /\ callResult' = evaluate(expr, e)
                    /\ evaluated' = TRUE
    /\ phase' = "called"
    /\ UNCHANGED <<config, stack, expr, error>>

---------------------------------------------------------------------------
(* The inputs of a run *)

AllArgs == <<SynthArg("x", "SynthInt"), SynthArg("s", "SynthStr"), SynthArg("l", "SynthList")>>

(* The sub-list of AllArgs at the positions S *)
ArgList(S) ==
    LET F[i \in 0..Len(AllArgs)] ==
          IF i = 0 THEN <<>>
          ELSE IF i \in S THEN Append(F[i - 1], AllArgs[i]) ELSE F[i - 1]
    IN F[Len(AllArgs)]

IntOps == {"SynthIntConst", "SynthIntAdd", "SynthListLen"}
BoolOps == {"SynthBoolConst", "SynthBoolAnd"}
StrOps == {"SynthStrConst", "SynthStrAdd"}
IntPool == <<IntV(3)>>
BoolPool == <<BoolV(TRUE), BoolV(FALSE)>>
StrPool == <<StrV(<<104, 105>>)>>
OutputTypes == Dispatchers \cup IntOps \cup BoolOps \cup StrOps

(* Positions in AllArgs of the parameters synthesis of type t can read *)
Readable(t) ==
    {i \in 1..Len(AllArgs) :
        \/ DeclaredType(AllArgs[i].argtype) = t
        \/ t = "int" /\ AllArgs[i].argtype = "SynthList"}

(* make_func is entered: output_type.synthesize(depth, ...) is the only    *)
(* active call.  The pools of a type the output type cannot reach are      *)
(* never read, so they are left at their full value; parameters of such a  *)
(* type are declared only in the full parameter list.                      *)
Init ==
    /\ depth \in 0..MaxDepth
    /\ output_type \in OutputTypes
    /\ input_args \in {ArgList(S) : S \in SUBSET Readable(DeclaredType(output_type))}
                        \cup {AllArgs}
    /\ int_literals \in IF DeclaredType(output_type) = "int" THEN {<<>>, IntPool} ELSE {IntPool}
    /\ int_ops \in IF DeclaredType(output_type) = "int" THEN SUBSET IntOps ELSE {IntOps}
    /\ bool_literals \in IF DeclaredType(output_type) = "bool" THEN {<<>>, BoolPool} ELSE {BoolPool}
    /\ bool_ops = BoolOps
    /\ str_literals \in IF DeclaredType(output_type) = "str" THEN {<<>>, StrPool} ELSE {StrPool}
    /\ str_ops \in IF DeclaredType(output_type) = "str" THEN SUBSET StrOps ELSE {StrOps}
    /\ stack = <<Frame(output_type, depth)>>
    /\ expr = NoNode
    /\ error = ""
    /\ phase = "synth"
    /\ args = <<>>
    /\ env = NoEnv
    /\ evaluated = FALSE
    /\ callResult = NoResult

SynthStep ==
    \/ SynthInt_synthesize
    \/ SynthIntConst_synthesize
    \/ SynthIntAdd_synthesize
    \/ SynthListLen_synthesize
    \/ SynthBool_synthesize
    \/ SynthBoolConst_synthesize
    \/ SynthBoolAnd_synthesize
    \/ SynthStr_synthesize
    \/ SynthStrConst_synthesize
    \/ SynthStrAdd_synthesize
    \/ SynthList_synthesize

Next ==
    \/ SynthInt_synthesize
    \/ SynthIntConst_synthesize
    \/ SynthIntAdd_synthesize
    \/ SynthListLen_synthesize
    \/ SynthBool_synthesize
    \/ SynthBoolConst_synthesize
    \/ SynthBoolAnd_synthesize
    \/ SynthStr_synthesize
    \/ SynthStrConst_synthesize
    \/ SynthStrAdd_synthesize
    \/ SynthList_synthesize
    \/ inner_func

Spec == Init /\ [][Next]_vars

(* A started synthesize call runs on: the interpreter is single-threaded   *)
(* and nothing in the recursion waits.                                     *)
FairSpec == Init /\ [][Next]_vars /\ WF_vars(SynthStep)

---------------------------------------------------------------------------
(* evaluate as a function of an arbitrary well-typed tree and environment *)

Leaves(t) ==
    CASE t = "int" -> {SynthIntConst(IntV(3)), SynthArg("x", "SynthInt")}
      [] t = "bool" -> {SynthBoolConst(BoolV(TRUE)), SynthBoolConst(BoolV(FALSE)),
                        SynthArg("b", "SynthBool")}
      [] t = "str" -> {SynthStrConst(StrV(<<104, 105>>)), SynthArg("s", "SynthStr")}
      [] t = "list" -> {SynthArg("l", "SynthList")}

RECURSIVE TreesOf(_, _)
TreesOf(t, h) ==
    IF h = 0 THEN Leaves(t)
    ELSE LET sub == TreesOf(t, h - 1) IN
         CASE t = "int" -> Leaves(t)
                           \cup {SynthIntAdd(l, r) : l \in sub, r \in sub}
                           \cup {SynthListLen(i) : i \in TreesOf("list", h - 1)}
           [] t = "bool" -> Leaves(t) \cup {SynthBoolAnd(l, r) : l \in sub, r \in sub}
           [] t = "str" -> Leaves(t) \cup {SynthStrAdd(l, r) : l \in sub, r \in sub}
           [] t = "list" -> Leaves(t)

EnvValue(nm) ==
    CASE nm = "x" -> IntV(4)
      [] nm = "b" -> BoolV(TRUE)
      [] nm = "s" -> StrV(<<97>>)
      [] nm = "l" -> ListV(<<0, 1, 2>>)

InitEval ==
    /\ expr \in TreesOf("int", EvalHeight) \cup TreesOf("bool", EvalHeight)
                  \cup TreesOf("str", EvalHeight)
    /\ env \in {[nm \in S |-> EnvValue(nm)] : S \in SUBSET {"x", "b", "s", "l"}}
    /\ phase = "tree"
    /\ depth = 0
    /\ input_args = <<>>
    /\ output_type = "None"
    /\ int_literals = <<>>
    /\ int_ops = {}
    /\ bool_literals = <<>>
    /\ bool_ops = {}
    /\ str_literals = <<>>
    /\ str_ops = {}
    /\ stack = <<>>
    /\ error = ""
    /\ args = <<>>
    /\ evaluated = FALSE
    /\ callResult = NoResult

(* expr.evaluate(env) *)
evaluate_call ==
    /\ phase = "tree"
    /\ callResult' = evaluate(expr, env)
    /\ evaluated' = TRUE
    /\ phase' = "evaluated"
    /\ UNCHANGED <<config, stack, expr, error, args, env>>

NextEval == evaluate_call

SpecEval == InitEval /\ [][NextEval]_vars

---------------------------------------------------------------------------
(* Measures and predicates used by the properties *)

Built == phase \in {"made", "called"}

Max(a, b) == IF a < b THEN b ELSE a

(* Longest chain of nested non-terminal nodes from this node downward *)
RECURSIVE Nesting(_)
Nesting(node) ==
    CASE node.cls \in {"SynthIntAdd", "SynthBoolAnd", "SynthStrAdd"} ->
           1 + Max(Nesting(node.left), Nesting(node.right))
      [] node.cls = "SynthListLen" -> 1 + Nesting(node.inner)
      [] OTHER -> 0

(* The child nodes a node owns *)
Kids(node) ==
    CASE node.cls \in {"SynthIntAdd", "SynthBoolAnd", "SynthStrAdd"} -> {node.left, node.right}
      [] node.cls = "SynthListLen" -> {node.inner}
      [] OTHER -> {}

Range(f) == {f[i] : i \in DOMAIN f}

(* Names of the parameters referenced anywhere in the tree *)
RECURSIVE Refs(_)
Refs(node) ==
    IF node.cls = "SynthArg" THEN {node.name}
    ELSE UNION {Refs(k) : k \in Kids(node)}

(* Names referenced outside the right operand of every SynthBoolAnd *)
RECURSIVE StrictRefs(_)
StrictRefs(node) ==
    IF node.cls = "SynthArg" THEN {node.name}
    ELSE IF node.cls = "SynthBoolAnd" THEN StrictRefs(node.left)
    ELSE UNION {StrictRefs(k) : k \in Kids(node)}

(* Every node ever returned to a caller or to make_func *)
ReturnedNodes ==
    (IF Built THEN {expr} ELSE {})
      \cup UNION {Range(stack[i].kids) : i \in DOMAIN stack}

---------------------------------------------------------------------------
(* C1: a tree returned by a synthesis call of depth d >= 1 nests at most d *)
(* non-terminal nodes on any path, because every child call is made with   *)
(* the caller's depth minus one.                                           *)
C1_DepthBound ==
    depth >= 1 =>
      /\ Built => Nesting(expr) <= depth
      /\ \A i \in DOMAIN stack :
            /\ i > 1 => stack[i].depth = stack[i - 1].depth - 1
            /\ \A k \in Range(stack[i].kids) : Nesting(k) <= stack[i].depth - 1

C1_Witness ==
    /\ phase = "made"
    /\ depth >= 1
    /\ Nesting(expr) >= 2
    /\ Nesting(expr) = depth - 1

---------------------------------------------------------------------------
(* C2: a request for Integer, Boolean or String with depth >= 1, a         *)
(* non-empty literal pool and the constant production enabled produces a   *)
(* node of the requested type (it does not fail, and what it returns has   *)
(* that type).                                                             *)
ConstEnabled(t) ==
    CASE t = "int" -> "SynthIntConst" \in int_ops /\ int_literals # <<>>
      [] t = "bool" -> "SynthBoolConst" \in bool_ops /\ bool_literals # <<>>
      [] t = "str" -> "SynthStrConst" \in str_ops /\ str_literals # <<>>
      [] OTHER -> FALSE

C2_ProducesRequestedType ==
    (/\ output_type \in {"SynthInt", "SynthBool", "SynthStr"}
     /\ depth >= 1
     /\ ConstEnabled(DeclaredType(output_type)))
    => /\ phase # "failed"
       /\ Built => NodeType(expr) = DeclaredType(output_type)

---------------------------------------------------------------------------
(* C3: when the candidate set of the type required at a recursion point is *)
(* empty, the whole call fails with the exhaustion condition (the          *)
(* IndexError of random.choice on an empty list) and returns no node.      *)
NoCandidates(cls, d) ==
    CASE cls = "SynthInt" ->
           /\ ~ConstEnabled("int")
           /\ ArgsOfType("SynthInt") = <<>>
           /\ (d <= 1 \/ int_ops \subseteq {"SynthIntConst"})
      [] cls = "SynthBool" ->
           /\ ~ConstEnabled("bool")
           /\ ArgsOfType("SynthBool") = <<>>
           /\ (d <= 1 \/ bool_ops \subseteq {"SynthBoolConst"})
      [] cls = "SynthStr" ->
           /\ ~ConstEnabled("str")
           /\ ArgsOfType("SynthStr") = <<>>
           /\ (d <= 1 \/ str_ops \subseteq {"SynthStrConst"})
      [] cls = "SynthList" -> ArgsOfType("SynthList") = <<>>
      [] OTHER -> FALSE

C3_ExhaustedFails ==
    [][(phase = "synth" /\ stack # <<>> /\ NoCandidates(Top.cls, Top.depth))
         => (phase' = "failed" /\ error' = "IndexError" /\ expr' = NoNode /\ stack' = <<>>)]_vars

---------------------------------------------------------------------------
(* C4: with non-empty literal pools synthesis terminates whatever is drawn *)
(* (the depth strictly decreases along the active calls and no production  *)
(* with depth <= 1 calls for a child), and a call of the returned function *)
(* has an outcome.                                                         *)
PoolsNonEmpty == int_literals # <<>> /\ bool_literals # <<>> /\ str_literals # <<>>

DepthDescends ==
    \A i \in DOMAIN stack :
        i < Len(stack) => (stack[i].depth > 1 /\ stack[i + 1].depth < stack[i].depth)

C4_Termination ==
    /\ [](PoolsNonEmpty => DepthDescends)
    /\ (phase = "synth" /\ PoolsNonEmpty) ~> (phase \in {"made", "failed"})
    /\ []((phase = "made" /\ PoolsNonEmpty) => ENABLED inner_func)

C4_Witness ==
    /\ phase = "called"
    /\ PoolsNonEmpty
    /\ depth = MaxDepth
    /\ Nesting(expr) = depth - 1
    /\ evaluated
    /\ callResult.ok

---------------------------------------------------------------------------
(* C5 as claimed: a tree referencing a parameter the environment does not  *)
(* bind raises KeyError when evaluated, wherever the reference is.         *)
C5_UnboundAlwaysRaises ==
    (phase = "evaluated" /\ ~(Refs(expr) \subseteq DOMAIN env))
    => callResult = Raise("KeyError")

(* C5 as amended: the reference raises KeyError unless it lies in the      *)
(* right operand of a SynthBoolAnd; a SynthBoolAnd whose left operand is   *)
(* false returns it without evaluating the right operand.                  *)
C5_UnboundRaisesWhenReached ==
    phase = "evaluated" =>
      /\ ~(StrictRefs(expr) \subseteq DOMAIN env) => callResult = Raise("KeyError")
      /\ (/\ expr.cls = "SynthBoolAnd"
          /\ expr.left = SynthBoolConst(BoolV(FALSE)))
         => callResult = Return(BoolV(FALSE))
      /\ ~callResult.ok => callResult.err = "KeyError"

C5_Witness ==
    /\ phase = "evaluated"
    /\ expr.cls = "SynthBoolAnd"
    /\ expr.left = SynthBoolConst(BoolV(FALSE))
    /\ expr.right.cls = "SynthArg"
    /\ expr.right.name \notin DOMAIN env
    /\ callResult.ok

---------------------------------------------------------------------------
(* C6: the value a synthesised node evaluates to, in an environment that   *)
(* binds every parameter to a value of its declared type, has the type the *)
(* node declares.                                                          *)
C6_TypeSound ==
    (phase = "called" /\ evaluated)
    => (callResult.ok /\ callResult.val.ty = NodeType(expr))

---------------------------------------------------------------------------
(* C7: the returned function fails with ValueError, without evaluating,    *)
(* when the number of arguments differs from the number of parameters, and *)
(* otherwise evaluates the tree with the i-th name bound to the i-th       *)
(* argument.                                                               *)
C7_Arity ==
    phase = "called" =>
      IF Len(args) # Len(input_args)
        THEN callResult = Raise("ValueError") /\ ~evaluated /\ env = NoEnv
        ELSE /\ evaluated
             /\ DOMAIN env = {input_args[i].name : i \in DOMAIN input_args}
             /\ \A i \in DOMAIN input_args : env[input_args[i].name] = args[i]
             /\ callResult = evaluate(expr, env)
             /\ callResult # Raise("ValueError")

C7_Witness ==
    /\ phase = "called"
    /\ Len(input_args) = 2
    /\ Len(args) = 3
    /\ callResult = Raise("ValueError")
    /\ Nesting(expr) >= 1

---------------------------------------------------------------------------
(* C8: the children of every non-terminal have the operand type it         *)
(* requires and come from that type's candidates: SynthIntAdd has Integer  *)
(* children, SynthStrAdd String children, SynthListLen a List parameter;   *)
(* a parameter stands only where its declared type is required.            *)
FromCandidates(node, t) ==
    /\ NodeType(node) = t
    /\ node.cls = "SynthArg" => node \in Range(input_args)
    /\ (t = "int" /\ node.cls # "SynthArg") => node.cls \in int_ops
    /\ (t = "str" /\ node.cls # "SynthArg") => node.cls \in str_ops
    /\ t = "list" => node.cls = "SynthArg"
    /\ node.cls = "SynthIntConst" => node.val \in Range(int_literals)
    /\ node.cls = "SynthStrConst" => node.val \in Range(str_literals)

RECURSIVE ChildrenTyped(_)
ChildrenTyped(node) ==
    /\ node.cls = "SynthIntAdd" => \A k \in Kids(node) : FromCandidates(k, "int")
    /\ node.cls = "SynthStrAdd" => \A k \in Kids(node) : FromCandidates(k, "str")
    /\ node.cls = "SynthBoolAnd" => \A k \in Kids(node) : NodeType(k) = "bool"
    /\ node.cls = "SynthListLen" => FromCandidates(node.inner, "list")
    /\ \A k \in Kids(node) : ChildrenTyped(k)

C8_ChildrenTyped ==
    /\ \A n \in ReturnedNodes : ChildrenTyped(n)
    /\ \A i \in DOMAIN stack : \A k \in Range(stack[i].kids) :
          FromCandidates(k, CASE stack[i].cls = "SynthIntAdd" -> "int"
                              [] stack[i].cls = "SynthStrAdd" -> "str"
                              [] stack[i].cls = "SynthListLen" -> "list"
                              [] OTHER -> "bool")

C8_Witness ==
    /\ phase = "made"
    /\ ArgsOfType("SynthInt") # <<>>
    /\ int_literals # <<>>
    /\ expr.cls = "SynthIntAdd"
    /\ expr.left.cls = "SynthListLen"
    /\ expr.right.cls = "SynthArg"

---------------------------------------------------------------------------
(* C9: started at SynthInt, SynthStr or SynthList, a non-terminal runs     *)
(* only with depth > 1, a call with depth <= 1 returns a constant or a     *)
(* parameter, and the RuntimeError and ValueError guards of the            *)
(* productions never fire.                                                 *)
C9_GuardsNeverFire ==
    output_type \in {"SynthInt", "SynthStr", "SynthList"} =>
      /\ \A i \in DOMAIN stack :
            /\ stack[i].cls \in NonTerminals => stack[i].depth > 1
            /\ stack[i].cls = "SynthIntConst" => int_literals # <<>>
            /\ stack[i].cls = "SynthStrConst" => str_literals # <<>>
            /\ stack[i].depth <= 2 => \A k \in Range(stack[i].kids) : k.cls \notin NonTerminals
      /\ (Built /\ depth <= 1) => expr.cls \in {"SynthIntConst", "SynthStrConst", "SynthArg"}
      /\ phase = "failed" => error = "IndexError"

C9_Witness ==
    /\ phase = "synth"
    /\ output_type = "SynthInt"
    /\ Len(stack) = 2
    /\ stack[1].cls = "SynthIntAdd"
    /\ stack[1].depth = 2
    /\ Len(stack[1].kids) = 1
    /\ Top.cls = "SynthIntConst"
    /\ Top.depth = 1

---------------------------------------------------------------------------
(* C10: synthesis of an Integer (a String) never fails when an Integer (a  *)
(* String) terminal is feasible and, for Integer, SynthListLen is not      *)
(* enabled or a List parameter exists; what it returns is a complete tree. *)
TerminalFeasible(t, argtype) == ConstEnabled(t) \/ ArgsOfType(argtype) # <<>>

(* A finished tree: no node missing, every leaf a constant or a parameter *)
RECURSIVE Complete(_)
Complete(node) ==
    /\ node.cls \in {"SynthArg", "SynthIntConst", "SynthStrConst"} \cup NonTerminals
    /\ \A k \in Kids(node) : Complete(k)

C10_NeverFails ==
    (/\ depth >= 1
     /\ \/ /\ output_type = "SynthInt"
           /\ TerminalFeasible("int", "SynthInt")
           /\ ("SynthListLen" \notin int_ops \/ ArgsOfType("SynthList") # <<>>)
        \/ /\ output_type = "SynthStr"
           /\ TerminalFeasible("str", "SynthStr"))
    => /\ phase # "failed"
       /\ Built => Complete(expr)

C10_Witness ==
    /\ phase = "made"
    /\ output_type = "SynthInt"
    /\ int_literals = <<>>
    /\ "SynthIntConst" \in int_ops
    /\ expr.cls = "SynthIntAdd"
    /\ expr.right.cls = "SynthListLen"

====
